---- MODULE Spec2Model ----
(***************************************************************************)
(* A model of lit's object store commands (src/src/cmd.go): hash-object,   *)
(* cat-file and ls-tree, over a file system holding the working file and   *)
(* the .git/objects fan-out directories.                                   *)
(*                                                                         *)
(* Strings and file contents are sequences of byte values (0..255).        *)
(* Go indexes from 0; the sequences here index from 1, and every operator  *)
(* that returns a Go index says so.                                        *)
(***************************************************************************)
EXTENDS Integers, Sequences, FiniteSets, TLC

VARIABLES
    fs,     \* object files: resolved path -> bytes of the file
    dirs,   \* fan-out directories that exist under .git/objects
    work,   \* the working file named on hash-object's command line (NoFile: absent)
    out,    \* the last finished invocation: its arguments, exit code, stderr, stdout
    pc,     \* position of the hash-object invocation that is running step by step
    w,      \* that invocation's local variables
    tree,   \* the entries and truncation the stored tree object was built from
    idPair, \* two identifiers handed to path derivation
    paths   \* the paths derived from them

vars == <<fs, dirs, work, out, pc, w, tree, idPair, paths>>

----------------------------------------------------------------------------
(* Bounds of the model *)

MaxLen == 1        \* longest working-file content, in bytes
MaxObjects == 1    \* most object files the store holds in one behaviour
MaxEntries == 2    \* most entries of a stored tree object
MaxIdLen == 4      \* longest identifier handed to path derivation alone

----------------------------------------------------------------------------
(* Bytes the source names *)

NUL == 0           \* "\x00"
SP == 32           \* ' '
LF == 10           \* Println / "\n"
SLASH == 47        \* "/"
DOT == 46          \* "."
ShaLen == 20       \* sha1.Sum's width; treeContent[i : i+20]

(* no file, no argument: values that are no byte sequence *)
NoFile == <<-1>>
NoArg == <<-2>>

BlobLabel == <<98, 108, 111, 98>>                    \* "blob"
TreeLabel == <<116, 114, 101, 101>>                  \* "tree"
ObjectsPrefix == <<46, 103, 105, 116, 47, 111, 98, 106, 101, 99, 116, 115, 47>>  \* ".git/objects/"

Min(a, b) == IF a < b THEN a ELSE b

Range(s) == {s[i] : i \in 1..Len(s)}

Prefix(s, n) == SubSeq(s, 1, Min(n, Len(s)))

RECURSIVE SeqsUpTo(_, _)
(* every sequence over S of length at most n *)
SeqsUpTo(S, n) ==
    IF n = 0 THEN {<<>>}
    ELSE LET shorter == SeqsUpTo(S, n - 1)
         IN  shorter \cup {Append(s, x) : s \in {t \in shorter : Len(t) = n - 1}, x \in S}

RECURSIVE Sum(_)
Sum(s) == IF s = <<>> THEN 0 ELSE Head(s) + Sum(Tail(s))

RECURSIVE Flatten(_)
Flatten(ss) == IF ss = <<>> THEN <<>> ELSE Head(ss) \o Flatten(Tail(ss))

----------------------------------------------------------------------------
(* Formatting: fmt's %d and %x *)

RECURSIVE Decimal(_)
(* fmt "%d" of a non-negative integer *)
Decimal(n) == IF n < 10 THEN <<48 + n>> ELSE Decimal(n \div 10) \o <<48 + (n % 10)>>

HexDigit(n) == IF n < 10 THEN 48 + n ELSE 87 + n

(* fmt "%x" of a byte slice: two lowercase digits per byte *)
Hex(bytes) == Flatten([i \in 1..Len(bytes) |-> <<HexDigit(bytes[i] \div 16), HexDigit(bytes[i] % 16)>>])

----------------------------------------------------------------------------
(* The envelope, its digest and its compressed form *)

(* fmt.Sprintf("blob %d\x00%s", size, content) *)
FrameAs(label, size, content) == label \o <<SP>> \o Decimal(size) \o <<NUL>> \o content

headerAndContent(size, content) == FrameAs(BlobLabel, size, content)

(* sha1.Sum: a 20-byte digest. SHA-1 itself is not computed: the digest is   *)
(* the envelope padded with a 0x80 marker and zeros, which has SHA-1's       *)
(* width and, on envelopes shorter than 20 bytes, its freedom from           *)
(* collisions; longer envelopes fold their tail into the last byte.          *)
Sha1Sum(env) ==
    [i \in 1..ShaLen |->
        IF i <= Len(env) /\ i < ShaLen THEN env[i]
        ELSE IF i = Len(env) + 1 THEN 128
        ELSE IF i = ShaLen /\ Len(env) >= ShaLen
             THEN Sum(SubSeq(env, ShaLen, Len(env))) % 256
        ELSE 0]

Adler(data) == (1 + Sum(data)) % 251

(* zlib.NewWriter + Write + Close: a two-byte header, the stream with its    *)
(* length, and a checksum trailer.                                           *)
ZlibHeader == <<120, 156>>

Compress(data) == ZlibHeader \o <<Len(data)>> \o data \o <<Adler(data)>>

(* zlib.NewReader + io.ReadAll: "header" when the two header bytes are       *)
(* missing or wrong (NewReader fails), "read" when the stream is cut short   *)
(* or its checksum is wrong (ReadAll fails).                                 *)
Decompress(bytes) ==
    IF Len(bytes) < 2 \/ SubSeq(bytes, 1, 2) # ZlibHeader
        THEN [err |-> "header", data |-> <<>>]
    ELSE IF Len(bytes) < 3 \/ Len(bytes) < 3 + bytes[3] + 1
        THEN [err |-> "read", data |-> <<>>]
    ELSE LET data == SubSeq(bytes, 4, 3 + bytes[3])
         IN  IF bytes[4 + bytes[3]] # Adler(data)
                 THEN [err |-> "read", data |-> <<>>]
                 ELSE [err |-> "", data |-> data]

RECURSIVE IndexFrom(_, _, _)
(* least index >= i (from 1) holding byte b, 0 when there is none *)
IndexFrom(s, i, b) ==
    IF i > Len(s) THEN 0 ELSE IF s[i] = b THEN i ELSE IndexFrom(s, i + 1, b)

RECURSIVE LastIndex(_, _)
LastIndex(s, b) ==
    IF s = <<>> THEN 0 ELSE IF s[Len(s)] = b THEN Len(s) ELSE LastIndex(SubSeq(s, 1, Len(s) - 1), b)

(* the loop without its break: the Go index of the last NUL *)
nullIndexNoBreak(content) == LastIndex(content, NUL) - 1

(* the loop `for i, b := range content { if b == 0 {...} }`: the Go index of *)
(* the first NUL, -1 when there is none                                      *)
nullIndex(content) == IndexFrom(content, 1, NUL) - 1

----------------------------------------------------------------------------
(* Paths *)

(* the loop with `if i == 2`: the "/" one character late *)
blobPathSlashLate(hash) ==
    <<DOT, SLASH>> \o ObjectsPrefix
        \o Flatten([i \in 1..Len(hash) |-> IF i - 1 = 2 THEN <<hash[i], SLASH>> ELSE <<hash[i]>>])

(* HashObject: blobPath := "./.git/objects/" and the loop that appends each  *)
(* character of the hash, with a "/" after the one at index 1                *)
blobPath(hash) ==
    <<DOT, SLASH>> \o ObjectsPrefix
        \o Flatten([i \in 1..Len(hash) |-> IF i - 1 = 1 THEN <<hash[i], SLASH>> ELSE <<hash[i]>>])

(* CatFile, LsTree: dir, fileName := sha[:2], sha[2:] and                    *)
(* fmt.Sprintf(".git/objects/%s/%s", dir, fileName); needs len(sha) >= 2     *)
filePath(sha) ==
    ObjectsPrefix \o SubSeq(sha, 1, 2) \o <<SLASH>> \o SubSeq(sha, 3, Len(sha))

RECURSIVE Split(_, _, _)
Split(s, cur, acc) ==
    IF s = <<>> THEN (IF cur = <<>> THEN acc ELSE Append(acc, cur))
    ELSE IF Head(s) = SLASH
        THEN Split(Tail(s), <<>>, IF cur = <<>> THEN acc ELSE Append(acc, cur))
        ELSE Split(Tail(s), Append(cur, Head(s)), acc)

(* How os.Open, os.Create and os.MkdirAll resolve a relative path: its       *)
(* components, with empty components and "." dropped.                        *)
Components(path) == SelectSeq(Split(path, <<>>, <<>>), LAMBDA c : c # <<DOT>>)

(* filepath.Dir, resolved *)
DirOf(path) == LET c == Components(path) IN SubSeq(c, 1, Len(c) - 1)

ObjectsDir == Components(ObjectsPrefix)

----------------------------------------------------------------------------
(* Inputs *)

Alphabet == {NUL, 97}

Contents == SeqsUpTo(Alphabet, MaxLen)

(* What HashObject computes from the size and the content it read, before  *)
(* it touches the store: the envelope, its hash in hex, the path of the    *)
(* object file (as built, and resolved) and the compressed buffer.         *)
Prepare(size, content) ==
    LET env == headerAndContent(size, content)
        hex == Hex(Sha1Sum(env))
    IN  [env |-> env, hash |-> hex, blobPath |-> blobPath(hex),
         file |-> Components(blobPath(hex)), dir |-> DirOf(blobPath(hex)),
         buffer |-> Compress(env)]

(* Prepare, computed once for every size and content of the model *)
Prepared == [n \in 0..MaxLen |-> [c \in Contents |-> Prepare(n, c)]]

(* the identifier hash-object prints for a working file of content c *)
IdOf(c) == Prepared[Len(c)][c].hash

(* the example of LsTree's comment *)
TreeId == Hex(<<232, 143, 122, 146, 156, 215, 11, 2, 116, 196, 234, 51, 178, 9, 201, 127, 168, 69, 253, 188>>)

(* arguments shorter than an identifier's directory part plus one character *)
ShortIds == {Prefix(TreeId, n) : n \in 0..2} \cup {Prefix(IdOf(<<>>), 2)}

GetArgs == {IdOf(c) : c \in Contents} \cup ShortIds \cup {TreeId, NoArg}

(* the resolved path of every path cat-file and ls-tree can build, computed *)
(* once                                                                     *)
Resolved ==
    [path \in {filePath(a) : a \in {x \in GetArgs : x # NoArg /\ Len(x) >= 2}} |->
        Components(path)]

Result(op, arg, flag, r) ==
    [op |-> op, arg |-> arg, flag |-> flag,
     exit |-> r.exit, msg |-> r.msg, err |-> r.err, stdout |-> r.stdout]

Ok(stdout) == [exit |-> 0, msg |-> "", err |-> "", stdout |-> stdout]

Fail(msg, err) == [exit |-> 1, msg |-> msg, err |-> err, stdout |-> <<>>]

(* a Go run-time panic: the process prints the panic and exits with status 2 *)
Panic(what) == [exit |-> 2, msg |-> "panic", err |-> what, stdout |-> <<>>]

NoResult == Result("none", NoArg, FALSE, Ok(<<>>))

----------------------------------------------------------------------------
(* The file system calls *)

(* os.Open(path): a handle on a file or on a directory, or the error.       *)
(* ioerr is the failure the environment injects on an existing file.        *)
Open(path, ioerr) ==
    LET c == Resolved[path]
    IN  IF c \in DOMAIN fs
            THEN IF ioerr = "EACCES"
                     THEN [err |-> "EACCES", kind |-> "", bytes |-> <<>>]
                     ELSE [err |-> "", kind |-> "file", bytes |-> fs[c]]
        ELSE IF c \in dirs \cup {ObjectsDir}
            THEN [err |-> "", kind |-> "dir", bytes |-> <<>>]
        ELSE [err |-> "ENOENT", kind |-> "", bytes |-> <<>>]

----------------------------------------------------------------------------
(* cat-file *)

(* cat-file and ls-tree leave every file as it is, so whatever follows one  *)
(* of them could have run in its place: a behaviour takes them one at a     *)
(* time, each after an invocation or a step that is not one of them.        *)
AfterRead == out.op \in {"cat-file", "ls-tree"}

(* CatFile from its arguments to its exit: arg is the identifier argument   *)
(* (NoArg: none given), prettyPrint the -p flag.                            *)
CatFileOutcome(arg, prettyPrint, ioerr) ==
    IF arg = NoArg THEN Fail("usage: mygit cat-file -flag<optional> <SHA>", "")
    ELSE IF Len(arg) < 2 THEN Panic("slice bounds out of range")
    ELSE LET file == Open(filePath(arg), ioerr)
         IN  IF file.err # "" THEN Fail("Failed to open object", file.err)
             ELSE IF file.kind = "dir" THEN Fail("Failed to create zlib reader", "EISDIR")
             ELSE LET z == Decompress(file.bytes)
                      content == z.data
                      nul == nullIndex(content)
                  IN  IF z.err = "header" THEN Fail("Failed to create zlib reader", "zlib")
                      ELSE IF z.err = "read" THEN Fail("Failed to read object content", "zlib")
                      ELSE IF nul = -1
                          THEN Fail("Invalid Git object format (no null byte found)", "")
                      ELSE IF prettyPrint
                          THEN Ok(SubSeq(content, nul + 2, Len(content)))
                          ELSE Ok(SubSeq(content, 1, nul))

CatFile ==
    \E arg \in GetArgs, prettyPrint \in BOOLEAN, ioerr \in {"", "EACCES"} :
        /\ ~AfterRead
        /\ out' = Result("cat-file", arg, prettyPrint, CatFileOutcome(arg, prettyPrint, ioerr))
        /\ UNCHANGED <<fs, dirs, work, pc, w, tree, idPair, paths>>

----------------------------------------------------------------------------
(* hash-object, one invocation as one step *)

(* how many bytes a failing f.Write can leave in the file: none, or all but *)
(* the last (any proper prefix is cut short; these two are the shortest and *)
(* the longest)                                                             *)
PartialLens(buffer) == {0, Len(buffer) - 1}

(* what the `if write { ... }` block does to the store: fail names the call *)
(* that fails ("": none), k the bytes a failing write got out.              *)
WriteObject(o, fail, k) ==
    LET c == o.file
        buffer == o.buffer
    IN  IF fail = "mkdir"
            THEN [dirs |-> dirs, fs |-> fs,
                  r |-> Fail("Could not create the directory ", "EIO")]
        ELSE IF fail = "create"
            THEN [dirs |-> dirs \cup {o.dir}, fs |-> fs,
                  r |-> Fail("error creating the file", "EIO")]
        ELSE IF fail = "write"
            THEN [dirs |-> dirs \cup {o.dir}, fs |-> (c :> Prefix(buffer, k)) @@ fs,
                  r |-> Fail("error writing the contents of the buffer to the created file", "EIO")]
        ELSE [dirs |-> dirs \cup {o.dir}, fs |-> (c :> buffer) @@ fs, r |-> Ok(<<>>)]

(* HashObject without its `if write`: the object is written either way *)
HashObjectAlwaysWrites(content, size, write, fail, k) ==
    LET o == Prepared[size][content]
        stored == WriteObject(o, fail, k)
    IN  [dirs |-> stored.dirs, fs |-> stored.fs,
         r |-> IF stored.r.exit = 0 THEN Ok(o.hash) ELSE stored.r]

(* HashObject from the content and the size it read to its exit *)
HashObjectOutcome(content, size, write, fail, k) ==
    LET o == Prepared[size][content]
        stored == IF write THEN WriteObject(o, fail, k)
                  ELSE [dirs |-> dirs, fs |-> fs, r |-> Ok(<<>>)]
    IN  [dirs |-> stored.dirs, fs |-> stored.fs,
         r |-> IF stored.r.exit = 0 THEN Ok(o.hash) ELSE stored.r]

(* the store has room for the object file *)
HasRoom(file) ==
    file \in DOMAIN fs \/ Cardinality(DOMAIN fs) < MaxObjects

HashObject ==
    \E write \in BOOLEAN, fail \in {"", "mkdir", "create", "write"}, short \in BOOLEAN :
        /\ pc = "idle"
        /\ ~write => fail = ""
        /\ fail # "write" => ~short
        /\ IF work = NoFile
               THEN /\ fail = ""
                    /\ out' = Result("hash-object", NoArg, write, Fail("Could not open the file", "ENOENT"))
                    /\ UNCHANGED <<fs, dirs>>
               ELSE LET full == Len(Prepared[Len(work)][work].buffer)
                        o == HashObjectOutcome(work, Len(work), write, fail,
                                               IF short THEN 0 ELSE full - 1)
                    IN  /\ write => HasRoom(Prepared[Len(work)][work].file)
                        /\ fs' = o.fs
                        /\ dirs' = o.dirs
                        /\ out' = Result("hash-object", work, write, o.r)
        /\ UNCHANGED <<work, pc, w, tree, idPair, paths>>

(* another process, or the user between two invocations, rewrites or       *)
(* removes the working file                                                *)
EditFile ==
    \E c \in Contents \cup {NoFile} :
        /\ c # work
        /\ work' = c
        /\ UNCHANGED <<fs, dirs, out, pc, w, tree, idPair, paths>>

----------------------------------------------------------------------------
(* ls-tree *)

RECURSIVE Less(_, _)
(* Go's < on strings: byte-wise lexicographic order *)
Less(a, b) ==
    IF b = <<>> THEN FALSE
    ELSE IF a = <<>> THEN TRUE
    ELSE IF Head(a) # Head(b) THEN Head(a) < Head(b)
    ELSE Less(Tail(a), Tail(b))

RECURSIVE ParseEntries(_, _, _, _)
(* The loop `for i < len(treeContent)`, from Go index i - 1, with the       *)
(* entries read so far. cap is cap(treeContent): a slice expression may end *)
(* past the length as long as it ends within the capacity, and then reads   *)
(* the zero bytes of the buffer behind the content.                         *)
ParseEntries(treeContent, i, cap, entries) ==
    IF ~(i - 1 < Len(treeContent)) THEN [panic |-> "", entries |-> entries]
    ELSE LET space == IndexFrom(treeContent, i, SP)
             nul == IndexFrom(treeContent, space + 1, NUL)
         IN  IF space = 0 \/ nul = 0
                 THEN [panic |-> "index out of range", entries |-> <<>>]
             ELSE IF nul + ShaLen > cap
                 THEN [panic |-> "slice bounds out of range", entries |-> <<>>]
             ELSE LET shaBytes == [j \in 1..ShaLen |->
                                      IF nul + j <= Len(treeContent)
                                          THEN treeContent[nul + j] ELSE 0]
                      entry == [Mode |-> SubSeq(treeContent, i, space - 1),
                                Name |-> SubSeq(treeContent, space + 1, nul - 1),
                                Sha |-> Hex(shaBytes)]
                  IN  ParseEntries(treeContent, nul + ShaLen + 1, cap, Append(entries, entry))

IsSortedByName(entries) ==
    \A i \in 1..(Len(entries) - 1) : ~Less(entries[i + 1].Name, entries[i].Name)

Reorderings(n) == {p \in [1..n -> 1..n] : \A i, j \in 1..n : p[i] = p[j] => i = j}

(* sort.Slice(entries, Name <): some reordering of the entries that is in   *)
(* ascending name order; sort.Slice is not stable, so entries of equal name *)
(* may come out in any order.                                               *)
SortSlice(entries) ==
    {sorted \in {[i \in 1..Len(entries) |-> entries[p[i]]] : p \in Reorderings(Len(entries))} :
        IsSortedByName(sorted)}

(* fmt.Println(entry.Name), or fmt.Printf("%s %s %s\n", Mode, Name, Sha) *)
PrintEntries(entries, nameOnly) ==
    Flatten([i \in 1..Len(entries) |->
        IF nameOnly THEN entries[i].Name \o <<LF>>
        ELSE entries[i].Mode \o <<SP>> \o entries[i].Name \o <<SP>> \o entries[i].Sha \o <<LF>>])

(* LsTree without its sort.Slice *)
ListingUnsorted(parsed) == {parsed}

(* the entries LsTree prints, in the order it prints them: one of the       *)
(* orders its sort can produce                                              *)
Listing(parsed) == SortSlice(parsed)

(* LsTree from its arguments to its exit: the set of results it can end in. *)
(* A missing argument is the empty string (fs.Arg(0)); capSlack is how far  *)
(* the buffer io.ReadAll returned extends past the data.                    *)
LsTreeOutcomes(arg, nameOnly, ioerr, capSlack) ==
    LET treeSha == IF arg = NoArg THEN <<>> ELSE arg
    IN  IF Len(treeSha) < 2 THEN {Panic("slice bounds out of range")}
        ELSE LET file == Open(filePath(treeSha), ioerr)
             IN  IF file.err # "" THEN {Fail("Failed to open object", file.err)}
                 ELSE IF file.kind = "dir" THEN {Fail("Failed to read file", "EISDIR")}
                 ELSE LET z == Decompress(file.bytes)
                          decompressedData == z.data
                          nul == nullIndex(decompressedData)
                          treeContent == SubSeq(decompressedData, nul + 2, Len(decompressedData))
                          parsed == ParseEntries(treeContent, 1, Len(treeContent) + capSlack, <<>>)
                      IN  IF z.err = "header" THEN {Fail("Failsed to decompress object", "zlib")}
                          ELSE IF z.err = "read" THEN {Fail("Failed to read decompressed data", "zlib")}
                          ELSE IF nul = -1 THEN {Fail("Invalid format", "")}
                          ELSE IF parsed.panic # "" THEN {Panic(parsed.panic)}
                          ELSE {Ok(PrintEntries(entries, nameOnly)) : entries \in Listing(parsed.entries)}

(* how far the buffer can extend past the data: not at all, or by a whole   *)
(* identifier (what lies between decides nothing more: the slice of 20      *)
(* bytes fits or it does not)                                               *)
CapSlacks == {0, ShaLen}

LsTree ==
    \E arg \in GetArgs, nameOnly \in BOOLEAN, ioerr \in {"", "EACCES"}, capSlack \in CapSlacks :
        /\ ~AfterRead
        /\ \E r \in LsTreeOutcomes(arg, nameOnly, ioerr, capSlack) :
               out' = Result("ls-tree", arg, nameOnly, r)
        /\ UNCHANGED <<fs, dirs, work, pc, w, tree, idPair, paths>>

----------------------------------------------------------------------------
(* Stored tree objects. lit has no command that writes one: they are put   *)
(* into the store by git itself, or cut short by a failed write or a       *)
(* damaged disk.                                                           *)

Modes == {<<52, 48, 48, 48, 48>>, <<49, 48, 48, 54, 52, 52>>}      \* "40000", "100644"
Names == {<<97>>, <<98>>}                                          \* "a", "b"
RawShas == {[i \in 1..ShaLen |-> SP], [i \in 1..ShaLen |-> NUL]}

TreeEntries ==
    {e \in [Mode : Modes, Name : Names, Raw : RawShas] :
        (e.Mode[1] = 52) = ((e.Name = <<97>>) = (e.Raw[1] = SP))}

(* <mode> <name>\0<20_byte_sha> *)
EntryBytes(e) == e.Mode \o <<SP>> \o e.Name \o <<NUL>> \o e.Raw

TreeBytes(entries) == Flatten([i \in 1..Len(entries) |-> EntryBytes(entries[i])])

(* the tree payload of entries with its last cut bytes missing *)
StoredPayload(t) == Prefix(TreeBytes(t.entries), Len(TreeBytes(t.entries)) - t.cut)

(* tree <size>\0 and the payload, compressed, as the object file holds it *)
TreeObject(t) == Compress(FrameAs(TreeLabel, Len(StoredPayload(t)), StoredPayload(t)))

(* what ls-tree prints for an entry as stored *)
Shown(e) == [Mode |-> e.Mode, Name |-> e.Name, Sha |-> Hex(e.Raw)]

NoTree == [entries |-> <<>>, cut |-> 0]

----------------------------------------------------------------------------
(* hash-object, call by call: what another process can see and change      *)
(* between two of its calls                                                *)

NoLocals == [write |-> FALSE, content |-> <<>>, size |-> 0]

(* the running invocation's hash, blobPath and buffer *)
prepared == Prepared[w.size][w.content]

Exit(r) ==
    /\ out' = Result("hash-object", w.content, w.write, r)
    /\ pc' = "idle"
    /\ w' = NoLocals

(* content, err := os.ReadFile(filePath) *)
ReadFile ==
    \E write \in BOOLEAN :
        /\ pc = "idle"
        /\ IF work = NoFile
               THEN /\ out' = Result("hash-object", NoArg, write, Fail("Could not open the file", "ENOENT"))
                    /\ UNCHANGED <<pc, w>>
               ELSE /\ w' = [write |-> write, content |-> work, size |-> 0]
                    /\ pc' = "stat"
                    /\ UNCHANGED out
        /\ UNCHANGED <<fs, dirs, work, tree, idPair, paths>>

(* info, err := os.Stat(filePath), then the envelope, its hash, the path    *)
(* and the compressed buffer, none of which another process can see        *)
Stat ==
    /\ pc = "stat"
    /\ IF work = NoFile
           THEN Exit(Fail("Could not open the file", "ENOENT"))
           ELSE /\ w' = [w EXCEPT !.size = Len(work)]
                /\ w.write => HasRoom(Prepared[Len(work)][w.content].file)
                /\ pc' = IF w.write THEN "mkdir" ELSE "print"
                /\ UNCHANGED out
    /\ UNCHANGED <<fs, dirs, work, tree, idPair, paths>>

(* os.MkdirAll(filepath.Dir(blobPath), os.ModePerm) *)
MkdirAll ==
    \E failed \in BOOLEAN :
        /\ pc = "mkdir"
        /\ IF failed
               THEN /\ Exit(Fail("Could not create the directory ", "EIO"))
                    /\ UNCHANGED dirs
               ELSE /\ dirs' = dirs \cup {prepared.dir}
                    /\ pc' = "create"
                    /\ UNCHANGED <<out, w>>
        /\ UNCHANGED <<fs, work, tree, idPair, paths>>

(* f, err := os.Create(blobPath): the file is created, or cut to length 0  *)
(* when it exists                                                          *)
Create ==
    \E failed \in BOOLEAN :
        /\ pc = "create"
        /\ IF failed
               THEN /\ Exit(Fail("error creating the file", "EIO"))
                    /\ UNCHANGED fs
               ELSE /\ fs' = (prepared.file :> <<>>) @@ fs
                    /\ pc' = "write"
                    /\ UNCHANGED <<out, w>>
        /\ UNCHANGED <<dirs, work, tree, idPair, paths>>

(* _, err = f.Write(buffer.Bytes()); f.Close() *)
Write ==
    \E failed \in BOOLEAN, k \in PartialLens(prepared.buffer) :
        /\ pc = "write"
        /\ ~failed => k = 0
        /\ IF failed
               THEN /\ fs' = (prepared.file :> Prefix(prepared.buffer, k)) @@ fs
                    /\ Exit(Fail("error writing the contents of the buffer to the created file", "EIO"))
               ELSE /\ fs' = (prepared.file :> prepared.buffer) @@ fs
                    /\ pc' = "print"
                    /\ UNCHANGED <<out, w>>
        /\ UNCHANGED <<dirs, work, tree, idPair, paths>>

(* fmt.Print(hash) *)
PrintHash ==
    /\ pc = "print"
    /\ Exit(Ok(prepared.hash))
    /\ UNCHANGED <<fs, dirs, work, tree, idPair, paths>>

----------------------------------------------------------------------------
(* Path derivation on its own, over identifiers of every length from 3    *)

HexChars == {48, 102}      \* "0", "f"

Identifiers == {h \in SeqsUpTo(HexChars, MaxIdLen) : Len(h) >= 3}

NoPaths == [put |-> <<>>, get |-> <<>>, other |-> <<>>]

(* the path HashObject builds for the first identifier *)
DerivePut ==
    /\ paths.put = <<>>
    /\ paths' = [paths EXCEPT !.put = blobPath(idPair[1])]
    /\ UNCHANGED <<fs, dirs, work, out, pc, w, tree, idPair>>

(* the paths CatFile builds for the first and for the second identifier *)
DeriveGet ==
    /\ paths.get = <<>>
    /\ paths' = [paths EXCEPT !.get = filePath(idPair[1]), !.other = filePath(idPair[2])]
    /\ UNCHANGED <<fs, dirs, work, out, pc, w, tree, idPair>>

----------------------------------------------------------------------------
(* Specifications *)

(* One invocation at a time, on an empty store (after init) *)
Init ==
    /\ fs = <<>>
    /\ dirs = {}
    /\ work = NoFile
    /\ out = NoResult
    /\ pc = "idle"
    /\ w = NoLocals
    /\ tree = NoTree
    /\ idPair = <<>>
    /\ paths = NoPaths

Next == HashObject \/ CatFile \/ EditFile

Spec == Init /\ [][Next]_vars

(* hash-object call by call, with cat-file and edits of the working file   *)
(* in between                                                              *)
NextSteps ==
    \/ ReadFile \/ Stat \/ MkdirAll \/ Create \/ Write \/ PrintHash
    \/ CatFile \/ EditFile

SpecSteps == Init /\ [][NextSteps]_vars

(* A store that holds one tree object, whole or cut short *)
(* the bytes that can be cut off a tree's end without cutting a whole entry *)
CutsOf(es) == IF es = <<>> THEN {0} ELSE 0..(Len(EntryBytes(es[Len(es)])) - 1)

StoredTrees ==
    UNION {{[entries |-> es, cut |-> c] : c \in CutsOf(es)} :
               es \in SeqsUpTo(TreeEntries, MaxEntries)}

InitTree ==
    /\ tree \in StoredTrees
    /\ fs = (Resolved[filePath(TreeId)] :> TreeObject(tree))
    /\ dirs = {DirOf(filePath(TreeId))}
    /\ work = NoFile
    /\ out = NoResult
    /\ pc = "idle"
    /\ w = NoLocals
    /\ idPair = <<>>
    /\ paths = NoPaths

NextTree == LsTree \/ CatFile

SpecTree == InitTree /\ [][NextTree]_vars

InitPath ==
    /\ idPair \in Identifiers \X Identifiers
    /\ paths = NoPaths
    /\ fs = <<>>
    /\ dirs = {}
    /\ work = NoFile
    /\ out = NoResult
    /\ pc = "idle"
    /\ w = NoLocals
    /\ tree = NoTree

NextPath == DerivePut \/ DeriveGet

SpecPath == InitPath /\ [][NextPath]_vars

----------------------------------------------------------------------------
(* Properties *)

Reads == {"cat-file", "ls-tree"}

(* an argument of the full identifier length: 40 hex characters *)
WellFormed(arg) == arg # NoArg /\ Len(arg) = 2 * ShaLen

(* the type label of a header "<label> <size>" *)
TypeLabel(header) == SubSeq(header, 1, IndexFrom(header, 1, SP) - 1)

RECURSIVE ParseDecimal(_)
ParseDecimal(digits) ==
    IF digits = <<>> THEN 0
    ELSE 10 * ParseDecimal(SubSeq(digits, 1, Len(digits) - 1)) + (digits[Len(digits)] - 48)

(* the length an envelope declares, and the bytes that follow its NUL *)
DeclaredLength(env) ==
    ParseDecimal(SubSeq(env, IndexFrom(env, 1, SP) + 1, IndexFrom(env, 1, NUL) - 1))

Payload(env) == SubSeq(env, IndexFrom(env, 1, NUL) + 1, Len(env))

(* an object file that holds a whole compressed envelope *)
Complete(bytes) == Decompress(bytes).err = ""

(* what a failure tells its caller: the exit status and the message, without *)
(* the operating system's error text appended to it                         *)
ErrorKind(r) == <<r.exit, r.msg>>

(* C1: a cat-file of the identifier that a writing hash-object has just     *)
(* printed succeeds (unless the file cannot be opened for permissions):     *)
(* with -p it prints exactly the bytes hash-object read, without -p a       *)
(* header whose type label is "blob".                                       *)
RoundTrip ==
    [][(/\ out.op = "hash-object" /\ out.flag /\ out.exit = 0
        /\ out'.op = "cat-file" /\ out'.arg = out.stdout /\ out'.err # "EACCES")
       => /\ out'.exit = 0
          /\ IF out'.flag THEN out'.stdout = out.arg
                          ELSE TypeLabel(out'.stdout) = BlobLabel]_vars

(* a content with a NUL byte in it has been stored and read back with -p *)
RoundTripWitness ==
    /\ out.op = "cat-file" /\ out.exit = 0 /\ out.flag
    /\ out.stdout # <<>> /\ NUL \in Range(out.stdout)
    /\ out.arg = IdOf(out.stdout)

(* C2 (as claimed): cat-file or ls-tree of a well-formed identifier with no *)
(* object file fails, prints nothing, and fails with a kind that the same   *)
(* command does not also report when an object file exists and cannot be    *)
(* opened.                                                                  *)
MissingObjectIsDistinct ==
    \A a \in {x \in GetArgs : WellFormed(x)} :
        (/\ out.op \in Reads /\ WellFormed(out.arg)
         /\ Resolved[filePath(out.arg)] \notin DOMAIN fs
         /\ Resolved[filePath(a)] \in DOMAIN fs)
        => /\ out.exit # 0 /\ out.stdout = <<>>
           /\ ErrorKind(out) #
                ErrorKind(IF out.op = "cat-file"
                              THEN CatFileOutcome(a, out.flag, "EACCES")
                              ELSE CHOOSE r \in LsTreeOutcomes(a, out.flag, "EACCES", 0) : TRUE)

(* C3 (as claimed): cat-file or ls-tree of an argument shorter than 3       *)
(* characters, or of none, fails without a fault and without opening        *)
(* anything.                                                                *)
ShortIdentifierRejected ==
    (out.op \in Reads /\ (out.arg = NoArg \/ Len(out.arg) < 3))
    => /\ out.exit = 1
       /\ out.msg # "panic"
       /\ out.err \notin {"ENOENT", "EACCES", "EISDIR"}

(* C4 (as claimed): ls-tree of a tree object whose payload is cut short     *)
(* ends in an error: it neither faults nor lists entries.                   *)
TruncatedTreeIsMalformed ==
    (out.op = "ls-tree" /\ out.arg = TreeId /\ out.err # "EACCES" /\ tree.cut > 0)
    => out.exit = 1 /\ out.msg # "panic" /\ out.stdout = <<>>

(* C5: the path hash-object builds for an identifier and the path cat-file  *)
(* builds for it resolve to the same file, .git/objects/<h[0:2]>/<h[2:]>,   *)
(* and the paths of two different identifiers resolve to different files.   *)
PathDerivation ==
    LET h == idPair[1]
        expected == ObjectsDir \o <<SubSeq(h, 1, 2), SubSeq(h, 3, Len(h))>>
    IN  /\ paths.put # <<>> => Components(paths.put) = expected
        /\ paths.get # <<>> =>
               /\ Components(paths.get) = expected
               /\ idPair[1] # idPair[2] => Components(paths.get) # Components(paths.other)
        /\ (paths.put # <<>> /\ paths.get # <<>>) => Components(paths.put) = Components(paths.get)

(* both paths are derived, for identifiers that differ only after their     *)
(* first two characters                                                     *)
PathDerivationWitness ==
    /\ paths.put # <<>> /\ paths.get # <<>>
    /\ idPair[1] # idPair[2]
    /\ SubSeq(idPair[1], 1, 2) = SubSeq(idPair[2], 1, 2)
    /\ Len(idPair[1]) = MaxIdLen

(* C6: a hash-object without -w changes no file and no directory of the     *)
(* store, and prints the identifier that the hash-object -w before it       *)
(* printed for the same content.                                            *)
DryRun ==
    [][/\ (out'.op = "hash-object" /\ ~out'.flag)
          => (fs' = fs /\ dirs' = dirs /\ (out'.arg # NoArg => out'.exit = 0))
       /\ (/\ out.op = "hash-object" /\ out'.op = "hash-object"
           /\ out.flag # out'.flag /\ out.arg = out'.arg
           /\ out.exit = 0 /\ out'.exit = 0)
          => out'.stdout = out.stdout]_vars

(* a dry run has printed the identifier of a content whose object is not in *)
(* the store, and the store is still empty                                  *)
DryRunWitness ==
    /\ out.op = "hash-object" /\ ~out.flag /\ out.exit = 0
    /\ out.arg # <<>>
    /\ fs = <<>> /\ dirs = {}

(* the stored entries as ls-tree shows them, in stored order *)
StoredShown == [i \in 1..Len(tree.entries) |-> Shown(tree.entries[i])]

ListsWholeTree == out.op = "ls-tree" /\ out.arg = TreeId /\ out.exit = 0 /\ tree.cut = 0

(* C7 (as claimed): ls-tree lists the entries of a stored tree object in    *)
(* the order the object stores them.                                        *)
ListingInStoredOrder ==
    ListsWholeTree => out.stdout = PrintEntries(StoredShown, out.flag)

StrictlyAscending(entries) ==
    \A i \in 1..(Len(entries) - 1) : Less(entries[i].Name, entries[i + 1].Name)

(* C7 (amended): the decode loop yields the entries of a stored tree object *)
(* in stored order, and ls-tree then lists exactly those entries in         *)
(* ascending byte-wise order of their names; that is the stored order when  *)
(* the stored names are strictly ascending.                                 *)
ListingInNameOrder ==
    ListsWholeTree =>
        /\ ParseEntries(StoredPayload(tree), 1, Len(StoredPayload(tree)), <<>>)
               = [panic |-> "", entries |-> StoredShown]
        /\ \E p \in Reorderings(Len(StoredShown)) :
               LET listed == [i \in 1..Len(StoredShown) |-> StoredShown[p[i]]]
               IN  /\ \A i \in 1..(Len(listed) - 1) : ~Less(listed[i + 1].Name, listed[i].Name)
                   /\ out.stdout = PrintEntries(listed, out.flag)
        /\ StrictlyAscending(StoredShown) => out.stdout = PrintEntries(StoredShown, out.flag)

(* a tree stored with "b" before "a" has been listed in full *)
ListingWitness ==
    /\ ListsWholeTree /\ ~out.flag
    /\ Len(tree.entries) = 2
    /\ Less(tree.entries[2].Name, tree.entries[1].Name)

(* C8 (as claimed): an object file that holds a whole compressed envelope   *)
(* holds the same bytes after every step.                                   *)
StoredObjectsNeverChange ==
    [][\A f \in DOMAIN fs : Complete(fs[f]) => (f \in DOMAIN fs' /\ fs'[f] = fs[f])]_vars

(* C9 (as claimed): every whole envelope in the store declares exactly the  *)
(* length of its payload.                                                   *)
DeclaredLengthIsPayloadLength ==
    \A f \in DOMAIN fs :
        Complete(fs[f]) =>
            DeclaredLength(Decompress(fs[f]).data) = Len(Payload(Decompress(fs[f]).data))

(* C10 (as claimed): after a hash-object -w that failed, the path of its    *)
(* object holds no file or the whole compressed envelope; after one that    *)
(* printed an identifier, the whole envelope.                               *)
WriteIsAllOrNothing ==
    (out.op = "hash-object" /\ out.flag /\ out.arg # NoArg)
    => LET o == Prepared[Len(out.arg)][out.arg]
       IN  IF out.exit = 0
               THEN o.file \in DOMAIN fs /\ fs[o.file] = o.buffer
               ELSE o.file \in DOMAIN fs => fs[o.file] = o.buffer

====
